---- MODULE Spec2Model ----
(***************************************************************************)
(* Model of the course-schedule plugin (src/main.py, class Main).          *)
(*                                                                         *)
(* Time.  A datetime is a record [kind, wall, tzinfo]: wall is the         *)
(* wall-clock reading in hours since an epoch, tzinfo is <<>> for a naive  *)
(* value and <<off>> for an aware value with UTC offset off (hours).       *)
(* kind = "date" is a pure date (an all-day DTSTART), which has no tzinfo  *)
(* attribute at all.  The system clock is the variable now, in hours of    *)
(* UTC since the same epoch.                                               *)
(*                                                                         *)
(* Identifiers (user ids, nicknames, group ids) are sequences of           *)
(* characters, so that the feed path is built by concatenation as the      *)
(* f-string builds it.  The empty sequence is the falsy group id of a      *)
(* private chat.                                                           *)
(*                                                                         *)
(* The summary of an event stands for its three pass-through fields        *)
(* (summary, description, location): the code copies them and never looks  *)
(* at them.                                                                *)
(***************************************************************************)
EXTENDS Integers, Sequences, FiniteSets, TLC

VARIABLES
    user_data,          \* self.user_data: group id -> ordered (user id, nickname) items
    files,              \* the ics directory: path -> content of the file
    user_data_file,     \* userdata.json, as last saved
    binding_requests,   \* self.binding_requests: request key -> request
    tasks,              \* the runs of handle_file_message, each idle or suspended
    clock,              \* time.time(), in seconds
    now,                \* the same system clock as datetime.now() reads it, hours of UTC
    result              \* what the last call yielded or returned (or the exception it raised)

vars == <<user_data, files, user_data_file, binding_requests, tasks, clock, now, result>>

\* what the queries leave alone
bindvars == <<user_data_file, binding_requests, tasks, clock>>

----------------------------------------------------------------------------
(* Bounds and constants *)

MaxEvents == 3          \* longest feed drawn (components per calendar)
MaxTasks == 2           \* runs of handle_file_message in flight at once
MaxClock == 61          \* the clock stops there

BindTimeout == 60       \* line 77

ShanghaiOffset == 8     \* timezone(timedelta(hours=8))

None == <<>>
Some(x) == <<x>>

----------------------------------------------------------------------------
(* datetime *)

DateTime(w, tz) == [kind |-> "datetime", wall |-> w, tzinfo |-> tz]

\* date-valued property (no time of day, no tzinfo attribute)
DateOnly(w) == [kind |-> "date", wall |-> w, tzinfo |-> None]

\* hasattr(dt, "tzinfo") and dt.tzinfo is not None
HasTz(dt) == dt.kind = "datetime" /\ dt.tzinfo # None

\* the absolute instant (hours of UTC) an aware datetime denotes
Instant(dt) == dt.wall - dt.tzinfo[1]

\* dt.astimezone(timezone(timedelta(hours=off))): same instant, new wall clock
AsTimezone(dt, off) == DateTime(Instant(dt) + off, Some(off))

\* dt.replace(tzinfo=timezone(timedelta(hours=off))): same wall clock, tzinfo attached
ReplaceTzinfo(dt, off) == DateTime(dt.wall, Some(off))

\* date.replace() takes no tzinfo keyword: TypeError
ReplaceRaises(dt) == dt.kind = "date"

\* faulty variant: what the comments of lines 159-172 say, a naive value taken as UTC
NormalizeAssumeUTC(dt) ==
    IF HasTz(dt) THEN AsTimezone(dt, ShanghaiOffset)
    ELSE AsTimezone(ReplaceTzinfo(dt, 0), ShanghaiOffset)

\* lines 160-165 (and 167-172 for dtend)
Normalize(dt) ==
    IF HasTz(dt) THEN AsTimezone(dt, ShanghaiOffset)
    ELSE ReplaceTzinfo(dt, ShanghaiOffset)

\* dt.date(): the civil date of the wall clock (day number)
DateOf(dt) == dt.wall \div 24

\* datetime.now(timezone(timedelta(hours=8)))
DatetimeNow(utc) == DateTime(utc + ShanghaiOffset, Some(ShanghaiOffset))

\* comparison of aware datetimes is by instant
DtLt(a, b) == Instant(a) < Instant(b)
DtLe(a, b) == Instant(a) <= Instant(b)

----------------------------------------------------------------------------
(* _parse_ics_file *)

Parsed(exc, courses) == [exc |-> exc, courses |-> courses]

Course(c) ==
    [summary |-> c.summary,
     start_time |-> Normalize(c.dtstart[1]),
     end_time |-> Normalize(c.dtend[1])]

\* the loop over cal.walk(): an exception leaves the function at once
RECURSIVE Walk(_, _)
Walk(components, courses) ==
    IF components = <<>> THEN Parsed("", courses)
    ELSE LET c == Head(components) IN
         IF c.name # "VEVENT" THEN Walk(Tail(components), courses)
         ELSE IF c.dtstart = None \/ c.dtend = None
              THEN Parsed("AttributeError", <<>>)      \* None has no attribute dt
         ELSE IF (~HasTz(c.dtstart[1]) /\ ReplaceRaises(c.dtstart[1]))
                 \/ (~HasTz(c.dtend[1]) /\ ReplaceRaises(c.dtend[1]))
              THEN Parsed("TypeError", <<>>)
         ELSE Walk(Tail(components), Append(courses, Course(c)))

ParseIcsFile(content) ==
    IF ~content.wellformed THEN Parsed("ValueError", <<>>)   \* Calendar.from_ical
    ELSE Walk(content.components, <<>>)

----------------------------------------------------------------------------
(* the feed path and the binding table *)

\* self.ics_path / f"{user_id}_{nickname}_{group_id}.ics"
IcsPath(user_id, nickname, group_id) ==
    user_id \o <<"_">> \o nickname \o <<"_">> \o group_id \o <<".ics">>

Item(user_id, nickname) == [user_id |-> user_id, nickname |-> nickname]

\* user_id in self.user_data[group_id]
HasUser(items, user_id) == \E i \in 1..Len(items) : items[i].user_id = user_id

\* self.user_data[group_id].get(user_id, user_id)
GetNickname(items, user_id) ==
    IF HasUser(items, user_id)
    THEN items[CHOOSE i \in 1..Len(items) : items[i].user_id = user_id].nickname
    ELSE user_id

----------------------------------------------------------------------------
(* list.sort(key=lambda x: x["start_time"]): a stable sort, ascending *)

\* faulty variant: x goes before the elements of equal key (a sort that is not stable)
RECURSIVE InsertByStartUnstable(_, _)
InsertByStartUnstable(sorted, x) ==
    IF sorted = <<>> THEN <<x>>
    ELSE IF DtLe(x.start_time, Head(sorted).start_time) THEN <<x>> \o sorted
    ELSE <<Head(sorted)>> \o InsertByStartUnstable(Tail(sorted), x)

\* x goes after every element whose key is not greater than its own
RECURSIVE InsertByStart(_, _)
InsertByStart(sorted, x) ==
    IF sorted = <<>> THEN <<x>>
    ELSE IF DtLt(x.start_time, Head(sorted).start_time) THEN <<x>> \o sorted
    ELSE <<Head(sorted)>> \o InsertByStart(Tail(sorted), x)

RECURSIVE SortFrom(_, _)
SortFrom(sorted, rest) ==
    IF rest = <<>> THEN sorted
    ELSE SortFrom(InsertByStart(sorted, Head(rest)), Tail(rest))

SortByStartTime(courses) == SortFrom(<<>>, courses)

----------------------------------------------------------------------------
(* replies *)

\* the event a handler is called with: the group it came from (<<>> in a private
\* chat), its sender's id and name, and the types of its message components
Event(group_id, sender_id, sender_name, messages) ==
    [group_id |-> group_id, sender_id |-> sender_id, sender_name |-> sender_name,
     messages |-> messages]

NoEvent == Event(<<>>, <<>>, <<>>, <<>>)

\* the outcome of a call: of a handler on its event (a "plain" or "image" reply, or
\* the exception it raised), or of _parse_ics_file on a path ("return" or "raise")
Reply(call, arg, kind, text, courses) ==
    [call |-> call, arg |-> arg, kind |-> kind, text |-> text, courses |-> courses]

NoReply == Reply("", NoEvent, "none", "", <<>>)

----------------------------------------------------------------------------
(* show_today_schedule *)

\* faulty variant: an event that starts at now is kept
IsTodayNotEarlier(course, nowdt) ==
    DateOf(course.start_time) = DateOf(nowdt) /\ DtLe(nowdt, course.start_time)

\* lines 208-211
IsTodayLater(course, nowdt) ==
    DateOf(course.start_time) = DateOf(nowdt) /\ DtLt(nowdt, course.start_time)

TodayCourses(courses, nowdt) ==
    SelectSeq(courses, LAMBDA c : IsTodayLater(c, nowdt))

\* lines 221-222
WithNickname(courses, nickname) ==
    [i \in 1..Len(courses) |->
        [summary |-> courses[i].summary,
         start_time |-> courses[i].start_time,
         end_time |-> courses[i].end_time,
         nickname |-> nickname]]

TodayReply(event) ==
    LET user_id == event.sender_id
        group_id == event.group_id
    IN
    IF group_id = <<>> \/ group_id \notin DOMAIN user_data
       \/ ~HasUser(user_data[group_id], user_id)
    THEN Reply("show_today_schedule", event, "plain", "NOT_BOUND", <<>>)
    ELSE LET nickname == GetNickname(user_data[group_id], user_id)
             path == IcsPath(user_id, nickname, group_id)
         IN  IF path \notin DOMAIN files
             THEN Reply("show_today_schedule", event, "plain", "FILE_MISSING", <<>>)
             ELSE LET p == ParseIcsFile(files[path])
                      today == TodayCourses(p.courses, DatetimeNow(now))
                  IN  IF p.exc # ""
                      THEN Reply("show_today_schedule", event, "raise", p.exc, <<>>)
                      ELSE IF today = <<>>
                      THEN Reply("show_today_schedule", event, "plain", "NO_MORE_TODAY", <<>>)
                      ELSE Reply("show_today_schedule", event, "image", "",
                                 WithNickname(SortByStartTime(today), nickname))

----------------------------------------------------------------------------
(* show_group_schedule *)

\* faulty variant: the events of other days are not filtered out
SameDayUnfiltered(courses, nowdt) == courses

\* line 250
SameDay(courses, nowdt) ==
    SelectSeq(courses, LAMBDA c : DateOf(c.start_time) = DateOf(nowdt))

\* faulty variant: no break, the last event that contains now is the current one
RECURSIVE ScanNoBreak(_, _, _)
ScanNoBreak(today, nowdt, user_next_course) ==
    IF today = <<>> THEN [current |-> None, next |-> user_next_course]
    ELSE LET course == Head(today) IN
         IF DtLe(course.start_time, nowdt) /\ DtLt(nowdt, course.end_time)
         THEN LET rest == ScanNoBreak(Tail(today), nowdt, user_next_course)
              IN  IF rest.current # None THEN rest
                  ELSE [current |-> Some(course), next |-> rest.next]
         ELSE IF DtLt(nowdt, course.start_time)
              THEN IF user_next_course = None
                      \/ DtLt(course.start_time, user_next_course[1].start_time)
                   THEN ScanNoBreak(Tail(today), nowdt, Some(course))
                   ELSE ScanNoBreak(Tail(today), nowdt, user_next_course)
         ELSE ScanNoBreak(Tail(today), nowdt, user_next_course)

\* lines 252-265: the scan; st = [current, next], each None or Some(course)
RECURSIVE Scan(_, _, _)
Scan(today, nowdt, user_next_course) ==
    IF today = <<>> THEN [current |-> None, next |-> user_next_course]
    ELSE LET course == Head(today) IN
         IF DtLe(course.start_time, nowdt) /\ DtLt(nowdt, course.end_time)
         THEN [current |-> Some(course), next |-> user_next_course]     \* break
         ELSE IF DtLt(nowdt, course.start_time)
              THEN IF user_next_course = None
                      \/ DtLt(course.start_time, user_next_course[1].start_time)
                   THEN Scan(Tail(today), nowdt, Some(course))
                   ELSE Scan(Tail(today), nowdt, user_next_course)
         ELSE Scan(Tail(today), nowdt, user_next_course)

\* faulty variant: only the course going on is displayed
DisplayCourseCurrentOnly(courses, nowdt) ==
    Scan(SameDay(courses, nowdt), nowdt, None).current

\* lines 246-268: the user's status, None or Some(course to display)
DisplayCourse(courses, nowdt) ==
    LET st == Scan(SameDay(courses, nowdt), nowdt, None)
    IN  IF st.current # None THEN st.current ELSE st.next

\* lines 272-280
UserCourse(course, item) ==
    [summary |-> course.summary,
     start_time |-> course.start_time,
     end_time |-> course.end_time,
     user_id |-> item.user_id,
     nickname |-> item.nickname]

\* faulty variant: no test of os.path.exists, open() raises on a missing file
RECURSIVE GroupLoopNoExistsTest(_, _, _, _)
GroupLoopNoExistsTest(items, group_id, nowdt, next_courses) ==
    IF items = <<>> THEN [exc |-> "", next_courses |-> next_courses]
    ELSE LET item == Head(items)
             path == IcsPath(item.user_id, item.nickname, group_id)
         IN  IF path \notin DOMAIN files
             THEN [exc |-> "FileNotFoundError", next_courses |-> <<>>]
             ELSE LET p == ParseIcsFile(files[path])
                      d == DisplayCourse(p.courses, nowdt)
                  IN  IF p.exc # "" THEN [exc |-> p.exc, next_courses |-> <<>>]
                      ELSE IF d = None
                      THEN GroupLoopNoExistsTest(Tail(items), group_id, nowdt, next_courses)
                      ELSE GroupLoopNoExistsTest(Tail(items), group_id, nowdt,
                                     Append(next_courses, UserCourse(d[1], item)))

\* lines 240-281: the loop over the items of the group; a parse exception ends it
RECURSIVE GroupLoop(_, _, _, _)
GroupLoop(items, group_id, nowdt, next_courses) ==
    IF items = <<>> THEN [exc |-> "", next_courses |-> next_courses]
    ELSE LET item == Head(items)
             path == IcsPath(item.user_id, item.nickname, group_id)
         IN  IF path \notin DOMAIN files
             THEN GroupLoop(Tail(items), group_id, nowdt, next_courses)   \* continue
             ELSE LET p == ParseIcsFile(files[path])
                      d == DisplayCourse(p.courses, nowdt)
                  IN  IF p.exc # "" THEN [exc |-> p.exc, next_courses |-> <<>>]
                      ELSE IF d = None
                      THEN GroupLoop(Tail(items), group_id, nowdt, next_courses)
                      ELSE GroupLoop(Tail(items), group_id, nowdt,
                                     Append(next_courses, UserCourse(d[1], item)))

GroupReply(event) ==
    LET group_id == event.group_id IN
    IF group_id = <<>> \/ group_id \notin DOMAIN user_data
    THEN Reply("show_group_schedule", event, "plain", "NOBODY_BOUND", <<>>)
    ELSE LET r == GroupLoop(user_data[group_id], group_id, DatetimeNow(now), <<>>)
         IN  IF r.exc # ""
             THEN Reply("show_group_schedule", event, "raise", r.exc, <<>>)
             ELSE IF r.next_courses = <<>>
             THEN Reply("show_group_schedule", event, "plain", "NOBODY_HAS_CLASS", <<>>)
             ELSE Reply("show_group_schedule", event, "image", "",
                        SortByStartTime(r.next_courses))

----------------------------------------------------------------------------
(* bind_schedule and handle_file_message *)

\* f"{group_id}-{user_id}"
RequestKey(group_id, user_id) == group_id \o <<"-">> \o user_id

\* lines 50-55
Request(event) ==
    [timestamp |-> clock, group_id |-> event.group_id, user_id |-> event.sender_id,
     nickname |-> event.sender_name]

\* del d[key], and d[key] = value
Without(d, key) == [k \in DOMAIN d \ {key} |-> d[k]]
With(d, key, value) == [k \in DOMAIN d \cup {key} |-> IF k = key THEN value ELSE d[k]]

\* a run of handle_file_message: where it is suspended, and its local variables
Task(pc, event, nickname) == [pc |-> pc, event |-> event, nickname |-> nickname]
IdleTask == Task("idle", NoEvent, <<>>)

\* faulty variant: a request is stale from the sixtieth second on
ExpiredAtTimeout(request) == clock - request.timestamp >= BindTimeout

\* line 77
Expired(request) == clock - request.timestamp > BindTimeout

\* lines 85-88: the first component of type File
HasFileComponent(messages) == \E i \in 1..Len(messages) : messages[i] = "File"

\* lines 136-138
SetNickname(data, group_id, user_id, nickname) ==
    LET items == IF group_id \in DOMAIN data THEN data[group_id] ELSE <<>>
    IN  With(data, group_id,
             IF HasUser(items, user_id)
             THEN [i \in 1..Len(items) |->
                     IF items[i].user_id = user_id THEN Item(user_id, nickname)
                     ELSE items[i]]
             ELSE Append(items, Item(user_id, nickname)))


U1 == <<"1">>
U2 == <<"2">>
U3 == <<"3">>
Users == {U1, U2, U3}

G1 == <<"7">>
PrivateChat == <<>>
EventGroups == {PrivateChat, G1}

\* the nickname each user is bound under
NickOf(user_id) ==
    IF user_id = U1 THEN <<"a">> ELSE IF user_id = U2 THEN <<"b">> ELSE <<"c">>

Component(name, summary, dtstart, dtend) ==
    [name |-> name, summary |-> summary, dtstart |-> dtstart, dtend |-> dtend]

\* a two-hour VEVENT whose start reads w on the wall clock, in timezone tz
Vevent(summary, w, tz) ==
    Component("VEVENT", summary, Some(DateTime(w, tz)), Some(DateTime(w + 2, tz)))

Calendar(components) == [wellformed |-> TRUE, components |-> components]
NotACalendar == [wellformed |-> FALSE, components |-> <<>>]

\* naive events: day 0 is hours 0..23, day 1 is hours 24..47
NaiveEvents ==
    { Vevent("Math", 23, None), Vevent("Math", 33, None), Vevent("Physics", 34, None),
      Vevent("Math", 36, None), Vevent("Physics", 36, None) }

\* aware events: 21 at -5 is 34 at +8; 16 at UTC (day 0) is 24 at +8 (day 1)
AwareEvents ==
    { Vevent("Tz", 21, Some(0 - 5)), Vevent("Tz", 16, Some(0)) }

\* an event without DTSTART, one without DTEND (it gives a DURATION), an all-day
\* event, and a component that is no event
OddComponents ==
    { Component("VEVENT", "NoStart", None, Some(DateTime(36, None))),
      Component("VEVENT", "NoEnd", Some(DateTime(36, None)), None),
      Component("VEVENT", "AllDay", Some(DateOnly(24)), Some(DateOnly(48))),
      Component("VTIMEZONE", "", None, None) }

Components == NaiveEvents \cup AwareEvents \cup OddComponents

Feeds == UNION { [1..n -> Components] : n \in 0..MaxEvents }

\* the clock readings drawn: 24:00, 34:00 and 35:00 at +8
Clocks == {16, 26, 27}

\* the feeds of the members of a group
GroupFeeds ==
    { Calendar(<<>>),
      Calendar(<<Vevent("Math", 33, None)>>),
      Calendar(<<Vevent("Physics", 34, None)>>),
      Calendar(<<Vevent("Math", 36, None)>>),
      Calendar(<<Component("VEVENT", "NoEnd", Some(DateTime(36, None)), None),
                 Vevent("Math", 36, None)>>),
      NotACalendar }

\* the orders in which the users of a set can have been bound
Rosters(S) ==
    { r \in [1..Cardinality(S) -> S] : \A i, j \in 1..Cardinality(S) : r[i] = r[j] => i = j }

Items(roster, group_id) ==
    [i \in 1..Len(roster) |-> Item(roster[i], NickOf(roster[i]))]

PathsOf(S, group_id) == { IcsPath(u, NickOf(u), group_id) : u \in S }

----------------------------------------------------------------------------
(* the queries on a bound group *)

\* one user bound, with any feed
InitOneUser ==
    /\ user_data = (G1 :> <<Item(U1, NickOf(U1))>>)
    /\ \E f \in Feeds : files = (IcsPath(U1, NickOf(U1), G1) :> Calendar(f))

\* several users bound in any order, each feed present or deleted
InitGroup ==
    \E S \in SUBSET Users :
        /\ \/ S = {} /\ user_data = <<>>
           \/ S # {} /\ \E r \in Rosters(S) : user_data = (G1 :> Items(r, G1))
        /\ \E P \in SUBSET PathsOf(S, G1) : files \in [P -> GroupFeeds]

InitQuery ==
    /\ InitOneUser \/ InitGroup
    /\ now \in Clocks
    /\ user_data_file = user_data
    /\ binding_requests = <<>>
    /\ tasks = [t \in 1..MaxTasks |-> IdleTask]
    /\ clock = 0
    /\ result = NoReply

\* a call of _parse_ics_file on a file there is
ParseReply(path) ==
    LET p == ParseIcsFile(files[path])
    IN  Reply("_parse_ics_file", [file_path |-> path],
              IF p.exc = "" THEN "return" ELSE "raise", p.exc, p.courses)

CallParseIcsFile ==
    /\ \E path \in DOMAIN files : result' = ParseReply(path)
    /\ UNCHANGED <<user_data, files, now>>
    /\ UNCHANGED bindvars

ShowTodaySchedule ==
    /\ \E g \in EventGroups, u \in Users : result' = TodayReply(Event(g, u, NickOf(u), <<"Plain">>))
    /\ UNCHANGED <<user_data, files, now>>
    /\ UNCHANGED bindvars

ShowGroupSchedule ==
    /\ \E g \in EventGroups : result' = GroupReply(Event(g, U1, NickOf(U1), <<"Plain">>))     \* the sender is never read
    /\ UNCHANGED <<user_data, files, now>>
    /\ UNCHANGED bindvars

NextQuery == CallParseIcsFile \/ ShowTodaySchedule \/ ShowGroupSchedule

SpecQuery == InitQuery /\ [][NextQuery]_vars

----------------------------------------------------------------------------
(* the binding handshake *)

\* the bind commands: the first user, under one of two names (the user renames)
BindCommands ==
    { Event(g, U1, n, <<"Plain">>) : g \in EventGroups, n \in {<<"a">>, <<"b">>} }

\* the other messages of that user, with a file or without (handle_file_message
\* never reads the sender's name)
GroupMessages ==
    { Event(g, U1, NickOf(U1), m) : g \in EventGroups,
                                    m \in { <<"Plain">>, <<"Plain", "File">> } }

\* the file a user uploads
UploadedFeed == Calendar(<<Vevent("Math", 36, None)>>)

\* the clock advances by half a minute or a second more
TickSteps == {30, 31}

InitBind ==
    /\ user_data = <<>>
    /\ files = <<>>
    /\ user_data_file = user_data
    /\ binding_requests = <<>>
    /\ tasks = [t \in 1..MaxTasks |-> IdleTask]
    /\ clock = 0
    /\ now = 26
    /\ result = NoReply

Tick ==
    /\ \E d \in TickSteps : clock + d <= MaxClock /\ clock' = clock + d
    /\ UNCHANGED <<user_data, files, user_data_file, binding_requests, tasks, now, result>>

\* lines 38-57
BindSchedule(event) ==
    /\ IF event.group_id = <<>>
       THEN /\ result' = Reply("bind_schedule", event, "plain", "USE_IN_GROUP", <<>>)
            /\ UNCHANGED binding_requests
       ELSE /\ binding_requests' =
                 With(binding_requests, RequestKey(event.group_id, event.sender_id),
                      Request(event))
            /\ result' = Reply("bind_schedule", event, "plain", "SEND_WITHIN_60", <<>>)
    /\ UNCHANGED <<user_data, files, user_data_file, tasks, clock, now>>

\* a return of handle_file_message without a reply
Silent(event, why) == Reply("handle_file_message", event, "none", why, <<>>)

\* lines 60-99: from the arrival of a group message to the await of get_file
HandleFileMessage(event) ==
    LET request_key == RequestKey(event.group_id, event.sender_id) IN
    /\ IF event.group_id = <<>>
       THEN /\ result' = Silent(event, "NO_GROUP")
            /\ UNCHANGED <<binding_requests, tasks>>
       ELSE IF request_key \notin DOMAIN binding_requests
       THEN /\ result' = Silent(event, "NO_REQUEST")
            /\ UNCHANGED <<binding_requests, tasks>>
       ELSE IF Expired(binding_requests[request_key])
       THEN /\ binding_requests' = Without(binding_requests, request_key)
            /\ result' = Silent(event, "EXPIRED")
            /\ UNCHANGED tasks
       ELSE IF ~HasFileComponent(event.messages)
       THEN /\ result' = Silent(event, "NO_FILE")
            /\ UNCHANGED <<binding_requests, tasks>>
       ELSE /\ \E t \in 1..MaxTasks :
                 /\ tasks[t].pc = "idle"
                 /\ \A o \in 1..(t - 1) : tasks[o].pc # "idle"
                 /\ tasks' = [tasks EXCEPT ![t] =
                        Task("get_file", event,
                             binding_requests[request_key].nickname)]
            /\ result' = Silent(event, "AWAIT_GET_FILE")
            /\ UNCHANGED binding_requests
    /\ UNCHANGED <<user_data, files, user_data_file, clock, now>>

TaskPath(task) == IcsPath(task.event.sender_id, task.nickname, task.event.group_id)
TaskKey(task) == RequestKey(task.event.group_id, task.event.sender_id)

\* lines 119-121 and 126-128: the failure is reported, and the run is suspended
\* at the yield
YieldFailure(t, text) ==
    /\ tasks' = [tasks EXCEPT ![t].pc = "yielded"]
    /\ result' = Reply("handle_file_message", tasks[t].event, "plain", text, <<>>)
    /\ UNCHANGED <<user_data, user_data_file, binding_requests>>

\* lines 122-123 and 129-130: del self.binding_requests[request_key]; return
AfterYield(t) ==
    /\ tasks[t].pc = "yielded"
    /\ IF TaskKey(tasks[t]) \in DOMAIN binding_requests
       THEN /\ binding_requests' = Without(binding_requests, TaskKey(tasks[t]))
            /\ result' = Silent(tasks[t].event, "REQUEST_DELETED")
       ELSE /\ result' = Reply("handle_file_message", tasks[t].event, "raise",
                               "KeyError", <<>>)
            /\ UNCHANGED binding_requests
    /\ tasks' = [tasks EXCEPT ![t] = IdleTask]
    /\ UNCHANGED <<user_data, files, user_data_file, clock, now>>

\* lines 126-144, the file being there: the binding is stored and saved, the
\* request deleted, the success reported
StoreBinding(t) ==
    LET event == tasks[t].event IN
    /\ user_data' = SetNickname(user_data, event.group_id, event.sender_id,
                                tasks[t].nickname)
    /\ user_data_file' = user_data'
    /\ IF TaskKey(tasks[t]) \in DOMAIN binding_requests
       THEN /\ binding_requests' = Without(binding_requests, TaskKey(tasks[t]))
            /\ result' = Reply("handle_file_message", event, "plain", "BIND_OK", <<>>)
       ELSE /\ result' = Reply("handle_file_message", event, "raise", "KeyError", <<>>)
            /\ UNCHANGED binding_requests
    /\ tasks' = [tasks EXCEPT ![t] = IdleTask]

\* lines 126-130: os.path.exists(ics_file_path)
AfterTransfer(t) ==
    IF TaskPath(tasks[t]) \in DOMAIN files'
    THEN StoreBinding(t)
    ELSE YieldFailure(t, "DOWNLOAD_FAILED")

\* lines 99-123: get_file returns a URL, a local path, a file object or something
\* else, or raises
GetFileReturns(t) ==
    /\ tasks[t].pc = "get_file"
    /\ \E file_path \in {"http", "local", "read", "unsupported", "raise"} :
          IF file_path = "http"
          THEN /\ tasks' = [tasks EXCEPT ![t].pc = "download_file"]
               /\ UNCHANGED <<user_data, files, user_data_file, binding_requests, result>>
          ELSE IF file_path \in {"local", "read"}
          THEN /\ files' = With(files, TaskPath(tasks[t]), UploadedFeed)
               /\ AfterTransfer(t)
          ELSE /\ UNCHANGED files
               /\ YieldFailure(t, "CANNOT_GET_FILE")
    /\ UNCHANGED <<clock, now>>

\* line 107: download_file writes the file, or returns having written nothing, or
\* raises
DownloadFileReturns(t) ==
    /\ tasks[t].pc = "download_file"
    /\ \E outcome \in {"written", "nothing", "raise"} :
          IF outcome = "written"
          THEN /\ files' = With(files, TaskPath(tasks[t]), UploadedFeed)
               /\ AfterTransfer(t)
          ELSE IF outcome = "nothing"
          THEN /\ UNCHANGED files
               /\ AfterTransfer(t)
          ELSE /\ UNCHANGED files
               /\ YieldFailure(t, "CANNOT_GET_FILE")
    /\ UNCHANGED <<clock, now>>

Next ==
    \/ Tick
    \/ \E event \in BindCommands : BindSchedule(event)
    \/ \E event \in GroupMessages : HandleFileMessage(event)
    \/ \E t \in 1..MaxTasks : GetFileReturns(t)
    \/ \E t \in 1..MaxTasks : DownloadFileReturns(t)
    \/ \E t \in 1..MaxTasks : AfterYield(t)

Spec == InitBind /\ [][Next]_vars

----------------------------------------------------------------------------
(* What the claims speak of, stated from the state alone.                  *)
(* Every parsed instant is read on the +8 wall clock, as is the clock.     *)

NowWall == now + ShanghaiOffset
Today == NowWall \div 24

GroupDone ==
    /\ result.call = "show_group_schedule"
    /\ result.arg.group_id \in DOMAIN user_data

\* the group query came to its end: it did not raise
GroupCompleted == GroupDone /\ result.kind # "raise"

BoundItems == user_data[result.arg.group_id]

PathOfItem(item) == IcsPath(item.user_id, item.nickname, result.arg.group_id)

FeedExists(item) == PathOfItem(item) \in DOMAIN files

CoursesOf(item) == ParseIcsFile(files[PathOfItem(item)]).courses

FeedParses(item) == ParseIcsFile(files[PathOfItem(item)]).exc = ""

OngoingIn(courses) ==
    { i \in 1..Len(courses) :
        /\ courses[i].start_time.wall \div 24 = Today
        /\ courses[i].start_time.wall <= NowWall
        /\ NowWall < courses[i].end_time.wall }

UpcomingIn(courses) ==
    { i \in 1..Len(courses) :
        /\ courses[i].start_time.wall \div 24 = Today
        /\ courses[i].start_time.wall > NowWall }

HasStatus(item) ==
    OngoingIn(CoursesOf(item)) # {} \/ UpcomingIn(CoursesOf(item)) # {}

RecordsOf(user_id) ==
    { k \in 1..Len(result.courses) : result.courses[k].user_id = user_id }

\* the record shows that course
Shows(record, course) ==
    /\ record.summary = course.summary
    /\ record.start_time = course.start_time
    /\ record.end_time = course.end_time

ItemIndexes == 1..Len(BoundItems)

----------------------------------------------------------------------------
\* C1: in the group query each user's status is Ongoing when a same-day event has
\* start <= now < end, otherwise Upcoming with a same-day event of least start
\* among those starting after now, otherwise None; ongoing beats upcoming wherever
\* the two stand in the feed.
C1_StatusAt ==
    GroupCompleted =>
        \A n \in ItemIndexes :
            LET item == BoundItems[n]
                courses == CoursesOf(item)
                on == OngoingIn(courses)
                up == UpcomingIn(courses)
                recs == RecordsOf(item.user_id)
            IN  FeedExists(item) =>
                  IF on # {}
                  THEN /\ Cardinality(recs) = 1
                       /\ \A k \in recs : \E i \in on : Shows(result.courses[k], courses[i])
                  ELSE IF up # {}
                  THEN /\ Cardinality(recs) = 1
                       /\ \A k \in recs : \E i \in up :
                            /\ Shows(result.courses[k], courses[i])
                            /\ \A j \in up :
                                 courses[i].start_time.wall <= courses[j].start_time.wall
                  ELSE recs = {}

\* an upcoming event stands before the ongoing one in the feed; the ongoing
\* event is the one shown
C1_Witness ==
    /\ GroupCompleted
    /\ \E n \in ItemIndexes :
         LET item == BoundItems[n] IN
         /\ FeedExists(item)
         /\ \E i \in UpcomingIn(CoursesOf(item)), j \in OngoingIn(CoursesOf(item)) :
              /\ i < j
              /\ \A k \in RecordsOf(item.user_id) :
                    Shows(result.courses[k], CoursesOf(item)[j])
         /\ RecordsOf(item.user_id) # {}

\* C2 as stated: every bound user whose feed file exists has a record, a user
\* with no ongoing and no upcoming event included.
C2_Original ==
    GroupCompleted =>
        \A n \in ItemIndexes :
            FeedExists(BoundItems[n]) => RecordsOf(BoundItems[n].user_id) # {}

\* C2 amended: the users with a record are the bound users whose feed file exists
\* and who have an ongoing or an upcoming event today, one record each; a user
\* whose status is None has no record, like a user whose feed is missing.
C2_RecordsAreUsersWithStatus ==
    GroupCompleted =>
        /\ \A n \in ItemIndexes :
             LET item == BoundItems[n] IN
             IF FeedExists(item) /\ HasStatus(item)
             THEN Cardinality(RecordsOf(item.user_id)) = 1
             ELSE RecordsOf(item.user_id) = {}
        /\ \A k \in 1..Len(result.courses) :
             \E n \in ItemIndexes :
                /\ BoundItems[n].user_id = result.courses[k].user_id
                /\ BoundItems[n].nickname = result.courses[k].nickname

\* an image is sent, and a user whose feed exists and has nothing left is not on it
C2_Witness ==
    /\ GroupCompleted
    /\ result.kind = "image"
    /\ \E n \in ItemIndexes :
         /\ FeedExists(BoundItems[n])
         /\ ~HasStatus(BoundItems[n])
         /\ RecordsOf(BoundItems[n].user_id) = {}

\* C3 as stated: when the feed of one bound user cannot be parsed and another
\* bound user has a feed that parses, the query still completes and shows the
\* users whose feeds parse.
C3_Original ==
    ( /\ GroupDone
      /\ \E n \in ItemIndexes : FeedExists(BoundItems[n]) /\ ~FeedParses(BoundItems[n])
      /\ \E n \in ItemIndexes : FeedExists(BoundItems[n]) /\ FeedParses(BoundItems[n]) )
    =>  /\ result.kind # "raise"
        /\ \A n \in ItemIndexes :
             LET item == BoundItems[n] IN
             (FeedExists(item) /\ FeedParses(item) /\ HasStatus(item))
                => RecordsOf(item.user_id) # {}

\* no binding gives a record: the feed is missing, or it parses and nothing is
\* ongoing or upcoming
NoItemYields ==
    \A n \in ItemIndexes :
        LET item == BoundItems[n] IN
        ~FeedExists(item) \/ (FeedParses(item) /\ ~HasStatus(item))

NobodyReply ==
    /\ result.kind = "plain"
    /\ result.text \in {"NOBODY_BOUND", "NOBODY_HAS_CLASS"}
    /\ result.courses = <<>>

PositionOf(user_id) == CHOOSE n \in ItemIndexes : BoundItems[n].user_id = user_id

\* C5: the records of the group query are in ascending order of anchor time (the
\* start of the event shown) and records of equal anchor time keep the order of
\* the bindings; no record without an anchor stands before a dated one.
C5_SortedStable ==
    (GroupCompleted /\ result.kind = "image") =>
        \A k, l \in 1..Len(result.courses) :
            k < l =>
                \/ result.courses[k].start_time.wall < result.courses[l].start_time.wall
                \/ /\ result.courses[k].start_time.wall = result.courses[l].start_time.wall
                   /\ PositionOf(result.courses[k].user_id)
                        < PositionOf(result.courses[l].user_id)

\* three records: two of equal anchor in binding order, and one that the sort
\* moved ahead of a user bound before it
C5_Witness ==
    /\ GroupCompleted
    /\ Len(result.courses) = 3
    /\ \E k \in 1..2 :
         result.courses[k].start_time.wall = result.courses[k + 1].start_time.wall
    /\ \E k \in 1..2 :
         PositionOf(result.courses[k].user_id) > PositionOf(result.courses[k + 1].user_id)

LeastOf(S) == CHOOSE i \in S : \A j \in S : i <= j

\* C6: when two or more same-day events of a user contain now, the one shown is the
\* one that stands first in the feed, whichever starts earlier.
C6_FirstOngoingInFeed ==
    GroupCompleted =>
        \A n \in ItemIndexes :
            LET item == BoundItems[n]
                courses == CoursesOf(item)
                on == OngoingIn(courses)
            IN  (FeedExists(item) /\ Cardinality(on) >= 2) =>
                  /\ RecordsOf(item.user_id) # {}
                  /\ \A k \in RecordsOf(item.user_id) :
                        Shows(result.courses[k], courses[LeastOf(on)])

\* two events contain now, the first in the feed starts later than the second,
\* and the first is shown
C6_Witness ==
    /\ GroupCompleted
    /\ \E n \in ItemIndexes :
         LET item == BoundItems[n]
             courses == CoursesOf(item)
             on == OngoingIn(courses)
         IN  /\ FeedExists(item)
             /\ \E i, j \in on :
                  /\ i = LeastOf(on)
                  /\ courses[j].start_time.wall < courses[i].start_time.wall
                  /\ \E k \in RecordsOf(item.user_id) :
                        /\ Shows(result.courses[k], courses[i])
                        /\ ~Shows(result.courses[k], courses[j])

----------------------------------------------------------------------------
(* show_today_schedule and _parse_ics_file *)

TodayDone ==
    /\ result.call = "show_today_schedule"
    /\ result.arg.group_id \in DOMAIN user_data
    /\ HasUser(user_data[result.arg.group_id], result.arg.sender_id)
    /\ IcsPath(result.arg.sender_id,
               GetNickname(user_data[result.arg.group_id], result.arg.sender_id),
               result.arg.group_id) \in DOMAIN files
    /\ result.kind # "raise"

SenderCourses ==
    ParseIcsFile(files[IcsPath(result.arg.sender_id,
                               GetNickname(user_data[result.arg.group_id],
                                           result.arg.sender_id),
                               result.arg.group_id)]).courses

\* C7: the today view returns exactly the events that start on now's date and
\* strictly after now (never one with start <= now, never one of another date),
\* in ascending order of start, events of equal start in feed order.
C7_TodayRemaining ==
    TodayDone =>
        LET courses == SenderCourses
            later == UpcomingIn(courses)
            out == result.courses
        IN  /\ (result.kind = "image") = (later # {})
            /\ (result.kind = "plain") = (later = {})
            /\ \A k \in 1..Len(out) :
                 /\ out[k].start_time.wall > NowWall
                 /\ out[k].start_time.wall \div 24 = Today
            /\ \E pos \in [1..Len(out) -> 1..Len(courses)] :
                 /\ { pos[k] : k \in 1..Len(out) } = later
                 /\ \A k \in 1..Len(out) : Shows(out[k], courses[pos[k]])
                 /\ \A k, l \in 1..Len(out) :
                      k < l =>
                        \/ out[k].start_time.wall < out[l].start_time.wall
                        \/ /\ out[k].start_time.wall = out[l].start_time.wall
                           /\ pos[k] < pos[l]

\* the feed holds an event that has started and still runs, which is left out,
\* and the order returned is not the order of the feed
C7_Witness ==
    /\ TodayDone
    /\ result.kind = "image"
    /\ OngoingIn(SenderCourses) # {}
    /\ \E i, j \in UpcomingIn(SenderCourses) :
         i < j /\ SenderCourses[j].start_time.wall < SenderCourses[i].start_time.wall

ParseDone == result.call = "_parse_ics_file"

Vevents(content) == SelectSeq(content.components, LAMBDA c : c.name = "VEVENT")

\* the event has both DTSTART and DTEND
HasBoth(c) == c.dtstart # <<>> /\ c.dtend # <<>>

\* C8 as stated: when an event of a well-formed feed lacks its start or its end,
\* parse leaves that event out and returns every other event of the feed.
C8_Original ==
    ( /\ ParseDone
      /\ files[result.arg.file_path].wellformed
      /\ \E i \in 1..Len(Vevents(files[result.arg.file_path])) :
            ~HasBoth(Vevents(files[result.arg.file_path])[i])
      /\ \A i \in 1..Len(Vevents(files[result.arg.file_path])) :
            LET c == Vevents(files[result.arg.file_path])[i]
            IN  HasBoth(c) => (c.dtstart[1].kind = "datetime" /\ c.dtend[1].kind = "datetime") )
    =>  /\ result.kind = "return"
        /\ Len(result.courses)
             = Len(SelectSeq(Vevents(files[result.arg.file_path]), HasBoth))

\* the value read from the feed and the value parse returns for it denote the
\* same instant when the former has a timezone, and read the same on the wall
\* clock when it has none; the value returned is at +8
NormalizedFrom(raw, dt) ==
    /\ dt.tzinfo = <<ShanghaiOffset>>
    /\ dt.tzinfo = DatetimeNow(now).tzinfo
    /\ IF raw.tzinfo # <<>>
       THEN dt.wall - ShanghaiOffset = raw.wall - raw.tzinfo[1]
       ELSE dt.wall = raw.wall

----------------------------------------------------------------------------
(* the expiry of a binding request *)

KeyOf(event) == RequestKey(event.group_id, event.sender_id)

Age(key) == clock - binding_requests[key].timestamp

\* the step is made for the user of the key: a message or a bind command of that
\* user is handled, or a run of the handler on a message of that user goes on
StepOfUser(key) ==
    \/ \E e \in GroupMessages : KeyOf(e) = key /\ HandleFileMessage(e)
    \/ \E e \in BindCommands : KeyOf(e) = key /\ BindSchedule(e)
    \/ \E t \in 1..MaxTasks :
         /\ tasks[t].pc # "idle"
         /\ TaskKey(tasks[t]) = key
         /\ tasks'[t] # tasks[t]

\* C10: a request expires by a test of the clock made when a message of its user
\* is handled.  A message handled more than 60 seconds after the bind command
\* changes no binding, writes no file, starts no transfer and removes the
\* request; a message with a file handled at most 60 seconds after it (60
\* included) goes on to the transfer and leaves the request in the table; and a
\* request past its 60 seconds stays as it is until a step made for its user:
\* the passing of time alone never removes it.
C10_ExpiryOnAccess ==
    [][ /\ \A e \in GroupMessages :
             ( /\ HandleFileMessage(e)
               /\ e.group_id # <<>>
               /\ KeyOf(e) \in DOMAIN binding_requests )
             => IF Age(KeyOf(e)) > BindTimeout
                THEN /\ user_data' = user_data
                     /\ user_data_file' = user_data_file
                     /\ files' = files
                     /\ tasks' = tasks
                     /\ KeyOf(e) \notin DOMAIN binding_requests'
                ELSE (\E i \in 1..Len(e.messages) : e.messages[i] = "File") =>
                     /\ binding_requests' = binding_requests
                     /\ \E t \in 1..MaxTasks :
                          /\ tasks[t].pc = "idle"
                          /\ tasks'[t].pc = "get_file"
                          /\ tasks'[t].event = e
        /\ \A key \in DOMAIN binding_requests :
             ( /\ Age(key) > BindTimeout
               /\ \/ key \notin DOMAIN binding_requests'
                  \/ binding_requests'[key] # binding_requests[key] )
             => StepOfUser(key)
        /\ clock' # clock => binding_requests' = binding_requests
      ]_vars

\* a message of the user has been handled 61 seconds after the bind command: the
\* request is gone and nothing is bound
C10_Witness ==
    /\ result.call = "handle_file_message"
    /\ result.text = "EXPIRED"
    /\ result.arg.sender_id = U1
    /\ HasFileComponent(result.arg.messages)
    /\ clock = BindTimeout + 1
    /\ KeyOf(result.arg) \notin DOMAIN binding_requests
    /\ user_data = <<>>
    /\ files = <<>>
    /\ \A t \in 1..MaxTasks : tasks[t].pc = "idle"


\* ---------------------------------------------------------------------------
\* C11: writers of one request key

\* run t ends in this step with del self.binding_requests[request_key] having
\* removed an entry
Removes(t) ==
    /\ tasks[t].pc # "idle"
    /\ tasks'[t].pc = "idle"
    /\ TaskKey(tasks[t]) \in DOMAIN binding_requests
    /\ TaskKey(tasks[t]) \notin DOMAIN binding_requests'

\* run t ends in this step with del self.binding_requests[request_key] finding
\* no entry
RemovalMisses(t) ==
    /\ tasks[t].pc # "idle"
    /\ tasks'[t].pc = "idle"
    /\ TaskKey(tasks[t]) \notin DOMAIN binding_requests
    /\ result'.kind = "raise"

\* the entry of run t's key is not the request run t read at line 74: a request
\* is replaced only by a later bind command (line 50), so an entry under
\* another name than the one the run read was issued after the run started
EntryIsLater(t) ==
    /\ TaskKey(tasks[t]) \in DOMAIN binding_requests
    /\ binding_requests[TaskKey(tasks[t])].nickname # tasks[t].nickname

\* C11: when file messages and bind commands of one (group, user) key interleave
\* at the suspension points of handle_file_message, no run's final removal of
\* the request finds the entry already removed (a request is consumed by one run
\* only), and no run removes a request that was issued after the run started
C11_Original ==
    [][\A t \in 1..MaxTasks :
          /\ ~RemovalMisses(t)
          /\ Removes(t) => ~EntryIsLater(t)]_vars

\* ---------------------------------------------------------------------------
\* C12: the binding table

\* the indexes of the user's entries in the group's part of the table
EntriesOf(data, group_id, user_id) ==
    IF group_id \in DOMAIN data
    THEN {i \in 1..Len(data[group_id]) : data[group_id][i].user_id = user_id}
    ELSE {}

\* at most one display name per (group, user)
OneNamePerUser(data) ==
    \A group_id \in DOMAIN data : \A i, j \in 1..Len(data[group_id]) :
        data[group_id][i].user_id = data[group_id][j].user_id => i = j

\* run t of handle_file_message ends in this step
Ends(t) == tasks[t].pc # "idle" /\ tasks'[t].pc = "idle"

\* run t ends in this step with the success message of line 144
Succeeds(t) == Ends(t) /\ result'.kind = "plain" /\ result'.text = "BIND_OK"

\* a successful bind leaves the user's one entry under the name of its request
SuccessReplaces(t) ==
    LET event == tasks[t].event IN
    Succeeds(t) =>
        /\ Cardinality(EntriesOf(user_data', event.group_id, event.sender_id)) = 1
        /\ GetNickname(user_data'[event.group_id], event.sender_id) = tasks[t].nickname

\* the table changes in no step but the end of a successful bind
FailureKeepsTable == user_data' # user_data => \E t \in 1..MaxTasks : Succeeds(t)

\* every entry of the table names a feed that is stored
NamedFeedsStored(data, stored) ==
    \A group_id \in DOMAIN data : \A i \in 1..Len(data[group_id]) :
        IcsPath(data[group_id][i].user_id, data[group_id][i].nickname, group_id)
            \in DOMAIN stored

\* C12: after any sequence of bind commands and file messages the table holds at
\* most one display name per (group, user); a successful re-bind replaces the
\* entry; a bind that failed or expired leaves the table as it was; and the name
\* stored is one under which a feed was stored, so the path the queries derive
\* from it is a path a bind wrote
C12_Original ==
    [][/\ OneNamePerUser(user_data')
       /\ \A t \in 1..MaxTasks : SuccessReplaces(t)
       /\ FailureKeepsTable
       /\ NamedFeedsStored(user_data', files')]_vars
====
